---- MODULE Spec2Model ----
(***************************************************************************)
(* Model of agent/session/plugins/shell/shell_unix.go: the process-wide    *)
(* PTY handle (ptyFile), StartPty / Stop / SetSize, getUserCredentials and *)
(* ShellPlugin.generateLogData.                                            *)
(*                                                                         *)
(* Text produced by external commands is a sequence of one-character       *)
(* strings.  Go ints are kept at their real width: a value is a sign and a *)
(* magnitude in little-endian limbs of 16 bits, because 2^32 does not fit  *)
(* the model checker's own integers.                                       *)
(***************************************************************************)
EXTENDS Integers, Sequences, FiniteSets, TLC

VARIABLES ptyFile, files, hist, lastStart, rec, race

vars == <<ptyFile, files, hist, lastStart, rec, race>>

\* ------------------------------------------------------------------ bounds
\* PTY master handles the model lets StartPty create.
MaxHandles == 2
\* Number of most recent calls kept in hist.
HistLen == 3

\* ------------------------------------------------------------- text helpers
Base == 2^16
NLimbs == 5

Space == {" ", "\n", "\t", "\r"}
Digit == [c \in {"0", "1", "2", "3", "4", "5", "6", "7", "8", "9"} |->
            CASE c = "0" -> 0 [] c = "1" -> 1 [] c = "2" -> 2 [] c = "3" -> 3
              [] c = "4" -> 4 [] c = "5" -> 5 [] c = "6" -> 6 [] c = "7" -> 7
              [] c = "8" -> 8 [] c = "9" -> 9]

RECURSIVE TrimLeft(_)
TrimLeft(s) == IF s # <<>> /\ Head(s) \in Space THEN TrimLeft(Tail(s)) ELSE s

RECURSIVE TrimRight(_)
TrimRight(s) ==
    IF s # <<>> /\ s[Len(s)] \in Space THEN TrimRight(SubSeq(s, 1, Len(s) - 1)) ELSE s

\* strings.TrimSpace
TrimSpace(s) == TrimRight(TrimLeft(s))

\* strings.Split(s, sep) for a one-character sep: n separators give n+1 fields.
RECURSIVE SplitFrom(_, _, _)
SplitFrom(s, sep, cur) ==
    IF s = <<>> THEN <<cur>>
    ELSE IF Head(s) = sep THEN <<cur>> \o SplitFrom(Tail(s), sep, <<>>)
    ELSE SplitFrom(Tail(s), sep, Append(cur, Head(s)))

Split(s, sep) == SplitFrom(s, sep, <<>>)

\* ------------------------------------------------------------- Go integers
ZeroMag == [i \in 1..NLimbs |-> 0]

\* limbs * 10 + carry, one limb longer than the argument
RECURSIVE MulAdd(_, _)
MulAdd(l, carry) ==
    IF l = <<>> THEN <<carry>>
    ELSE LET v == Head(l) * 10 + carry
         IN  <<v % Base>> \o MulAdd(Tail(l), v \div Base)

RECURSIVE ParseMag(_, _, _)
ParseMag(digits, acc, over) ==
    IF digits = <<>> THEN [mag |-> acc, over |-> over]
    ELSE LET m == MulAdd(acc, Digit[Head(digits)])
         IN  ParseMag(Tail(digits), SubSeq(m, 1, NLimbs), over \/ m[NLimbs + 1] # 0)

\* magnitude < 2^(bits-1), bits in {32, 64}
BelowHalf(mag, bits) ==
    LET top == bits \div 16
    IN  /\ \A i \in (top + 1)..NLimbs : mag[i] = 0
        /\ mag[top] < 32768

\* magnitude = 2^(bits-1)
IsHalf(mag, bits) ==
    LET top == bits \div 16
    IN  \A i \in 1..NLimbs : mag[i] = (IF i = top THEN 32768 ELSE 0)

AtoiError(e) == [err |-> e, neg |-> FALSE, mag |-> ZeroMag]

\* the range check on the parsed magnitude p
AtoiRange(neg, p, bits) ==
    IF p.over \/ ~(BelowHalf(p.mag, bits) \/ (neg /\ IsHalf(p.mag, bits)))
    THEN AtoiError("ErrRange")
    ELSE [err |-> "nil", neg |-> neg /\ p.mag # ZeroMag, mag |-> p.mag]

\* the digits after the optional sign
AtoiDigits(neg, body, bits) ==
    IF body = <<>> \/ \E i \in 1..Len(body) : body[i] \notin DOMAIN Digit
    THEN AtoiError("ErrSyntax")
    ELSE AtoiRange(neg, ParseMag(body, ZeroMag, FALSE), bits)

\* strconv.Atoi for an int of the build's width
Atoi(s, bits) ==
    IF s # <<>> /\ Head(s) \in {"+", "-"}
    THEN AtoiDigits(Head(s) = "-", Tail(s), bits)
    ELSE AtoiDigits(FALSE, s, bits)

\* the Go comparison n > 0
Positive(n) == ~n.neg /\ n.mag # ZeroMag

\* the conversion uint32(n): the low 32 bits in two's complement, as <<lo, hi>>
Uint32(n) ==
    LET lo == n.mag[1]
        hi == n.mag[2]
    IN  IF ~n.neg THEN <<lo, hi>>
        ELSE IF lo = 0 THEN <<0, (Base - hi) % Base>>
        ELSE <<Base - lo, (Base - 1 - hi) % Base>>

Zero32 == <<0, 0>>

\* ------------------------------------------------- external identity queries
\* The result of cmd.Output(): the exit status and the captured stdout.
Out(s) == [ok |-> TRUE, out |-> s]
Fail == [ok |-> FALSE, out |-> <<>>]

\* `getent group <name>` run through the shell: the shell drops the white
\* space around the word, and an unknown group makes the command exit non-zero.
Getent(host, name) ==
    IF TrimSpace(name) \in DOMAIN host.groupDb THEN Out(host.groupDb[TrimSpace(name)]) ELSE Fail

CredError(e, qs) ==
    [err |-> e, uid |-> Zero32, gid |-> Zero32, groups |-> <<>>, queries |-> qs]

GroupIdError(e) == [err |-> e, id |-> Zero32]

\* uint32(groupIdFromName) when Atoi returned a
GroupIdOf(a) == IF a.err # "nil" THEN GroupIdError(a.err) ELSE [err |-> "nil", id |-> Uint32(a)]

\* The third colon-delimited field of a group record as a number; indexing a
\* record with fewer than three fields panics.
GroupIdFromFields(fields, bits) ==
    IF Len(fields) < 3 THEN GroupIdError("panic") ELSE GroupIdOf(Atoi(TrimSpace(fields[3]), bits))

\* The group id from the result of one group-database query.
GroupIdFromName(out, bits) ==
    IF ~out.ok THEN GroupIdError("ErrExit") ELSE GroupIdFromFields(Split(out.out, ":"), bits)

\* The loop of getUserCredentials over groupNames[i..]: one group-database
\* query per name, stopping at the first failure.
RECURSIVE GroupLoop(_, _, _, _, _, _)
GroupLoopNext(host, bits, groupNames, i, groupIds, qs, g) ==
    IF g.err # "nil" THEN [err |-> g.err, groupIds |-> <<>>, queries |-> qs]
    ELSE GroupLoop(host, bits, groupNames, i + 1, Append(groupIds, g.id), qs)

GroupLoop(host, bits, groupNames, i, groupIds, qs) ==
    IF i > Len(groupNames) THEN [err |-> "nil", groupIds |-> groupIds, queries |-> qs]
    ELSE GroupLoopNext(host, bits, groupNames, i, groupIds,
                       Append(qs, <<"getent group", groupNames[i]>>),
                       GroupIdFromName(Getent(host, groupNames[i]), bits))

\* `uid > 0 || gid > 0`: one positive id is enough.
ValidateIds_Either(uid, gid, groupIds, qs) ==
    IF Positive(uid) \/ Positive(gid)
    THEN [err |-> "nil", uid |-> Uint32(uid), gid |-> Uint32(gid),
          groups |-> groupIds, queries |-> qs]
    ELSE CredError("ErrInvalidIds", qs)

\* The final validation of getUserCredentials and the conversion of the ids.
ValidateIds(uid, gid, groupIds, qs) ==
    IF Positive(uid) /\ Positive(gid)
    THEN [err |-> "nil", uid |-> Uint32(uid), gid |-> Uint32(gid),
          groups |-> groupIds, queries |-> qs]
    ELSE CredError("ErrInvalidIds", qs)

\* the end of getUserCredentials, after the loop over the group names
Resolved(uid, gid, loop) ==
    IF loop.err # "nil" THEN CredError(loop.err, loop.queries)
    ELSE ValidateIds(uid, gid, loop.groupIds, loop.queries)

Q1 == <<<<"id -u">>>>
Q2 == <<<<"id -u">>, <<"id -g">>>>
Q3 == <<<<"id -u">>, <<"id -g">>, <<"groups">>>>

\* `for i := 1`: only the first token of the membership output is skipped.
Resolve_FromSecond(host, bits, uid, gid) ==
    IF ~host.uidOut.ok THEN CredError("ErrExit", Q1)
    ELSE IF uid.err # "nil" THEN CredError(uid.err, Q1)
    ELSE IF ~host.gidOut.ok THEN CredError("ErrExit", Q2)
    ELSE IF gid.err # "nil" THEN CredError(gid.err, Q2)
    ELSE IF ~host.groupsOut.ok THEN CredError("ErrExit", Q3)
    ELSE Resolved(uid, gid, GroupLoop(host, bits, Split(host.groupsOut.out, " "), 2, <<>>, Q3))

\* the steps of getUserCredentials given what the two Atoi calls return
Resolve(host, bits, uid, gid) ==
    IF ~host.uidOut.ok THEN CredError("ErrExit", Q1)
    ELSE IF uid.err # "nil" THEN CredError(uid.err, Q1)
    ELSE IF ~host.gidOut.ok THEN CredError("ErrExit", Q2)
    ELSE IF gid.err # "nil" THEN CredError(gid.err, Q2)
    ELSE IF ~host.groupsOut.ok THEN CredError("ErrExit", Q3)
    ELSE Resolved(uid, gid, GroupLoop(host, bits, Split(host.groupsOut.out, " "), 3, <<>>, Q3))

\* getUserCredentials on a host, built with ints of the given width.
getUserCredentials(host, bits) ==
    Resolve(host, bits, Atoi(TrimSpace(host.uidOut.out), bits),
            Atoi(TrimSpace(host.gidOut.out), bits))

\* ------------------------------------------------------------------ StartPty
ShellPluginCommandArgs == <<"-c">>
termEnvVariable == <<"TERM", "xterm-256color">>
homeEnvVariable == <<"HOME", "/home/ssm-user">>
langEnvVariable == <<"LANG", "C.UTF-8">>
langEnvVariableKey == "LANG"

\* os.Getenv: the value of the variable, "" when it is not defined
Getenv(environ, key) ==
    IF \E k \in 1..Len(environ) : environ[k][1] = key
    THEN environ[CHOOSE k \in 1..Len(environ) : environ[k][1] = key][2]
    ELSE ""

\* `shellCmd == ""` without strings.TrimSpace: a blank command is passed on.
CommandArgs_NoTrim(shellCmd) ==
    IF shellCmd = <<>> THEN <<"sh">>
    ELSE <<"sh">> \o Append(ShellPluginCommandArgs, shellCmd)

\* exec.Command("sh", ...): the argument vector of the child
CommandArgs(shellCmd) ==
    IF TrimSpace(shellCmd) = <<>> THEN <<"sh">>
    ELSE <<"sh">> \o Append(ShellPluginCommandArgs, shellCmd)

\* cmd.Env
\* the locale default appended only when the parent has no LANG entry at all
CommandEnv_Undefined(environ) ==
    LET env == environ \o <<termEnvVariable, homeEnvVariable>>
    IN  IF \E k \in 1..Len(environ) : environ[k][1] = langEnvVariableKey
        THEN env ELSE Append(env, langEnvVariable)

CommandEnv(environ) ==
    LET env == environ \o <<termEnvVariable, homeEnvVariable>>
    IN  IF Getenv(environ, langEnvVariableKey) = "" THEN Append(env, langEnvVariable) ELSE env

NoCredential == [set |-> FALSE, uid |-> Zero32, gid |-> Zero32, groups |-> <<>>]
NoChild == [spawned |-> FALSE, args |-> <<>>, env |-> <<>>, cred |-> NoCredential]
NewFile == [st |-> "open", size |-> <<0, 0>>]

\* cmd.SysProcAttr.Credential built from what getUserCredentials returned
Credential(c) == [set |-> TRUE, uid |-> c.uid, gid |-> c.gid, groups |-> c.groups]

StartResult(err, h, pf, fs, child, started, c) ==
    [err |-> err, stdin |-> h, stdout |-> h, ptyFile |-> pf, files |-> fs, child |-> child,
     started |-> started, cred |-> c]

\* exec.Cmd as StartPty has set it up when it calls pty.Start
Command(i, cred) ==
    [spawned |-> TRUE, args |-> CommandArgs(i.shellCmd), env |-> CommandEnv(i.environ),
     cred |-> cred]

\* `ptyFile := pty.Start(cmd)`: the handle is returned but the package variable
\* is not assigned.
StartPtyWith_Shadowed(i, pf, fs, c) ==
    IF i.runAs /\ c.err # "nil"
    THEN StartResult(c.err, 0, pf, fs, NoChild, FALSE, c)
    ELSE IF ~i.ptyOk
    THEN StartResult("ErrPtyStart", 0, pf, fs, NoChild, TRUE, c)
    ELSE StartResult("nil", Len(fs) + 1, pf, Append(fs, NewFile),
                     Command(i, IF i.runAs THEN Credential(c) ELSE NoCredential), TRUE, c)

\* The resolver's error is logged and the shell is started under the caller's
\* own identity.
StartPtyWith_Fallback(i, pf, fs, c) ==
    IF ~i.ptyOk
    THEN StartResult("ErrPtyStart", 0, 0, fs, NoChild, TRUE, c)
    ELSE StartResult("nil", Len(fs) + 1, Len(fs) + 1, Append(fs, NewFile),
                     Command(i, IF i.runAs /\ c.err = "nil" THEN Credential(c) ELSE NoCredential),
                     TRUE, c)

\* pty.Start assigns a local and the package variable only on success: a
\* failed start keeps the handle that was tracked.
StartPtyWith_KeepOnFail(i, pf, fs, c) ==
    IF i.runAs /\ c.err # "nil"
    THEN StartResult(c.err, 0, pf, fs, NoChild, FALSE, c)
    ELSE IF ~i.ptyOk
    THEN StartResult("ErrPtyStart", 0, pf, fs, NoChild, TRUE, c)
    ELSE StartResult("nil", Len(fs) + 1, Len(fs) + 1, Append(fs, NewFile),
                     Command(i, IF i.runAs THEN Credential(c) ELSE NoCredential), TRUE, c)

\* StartPty from line 76 on, c being what getUserCredentials returns when it
\* is called: what StartPty returns and what it leaves, the tracked handle
\* being pf and the handles created so far fs.  started tells whether pty.Start
\* was reached; a panic of the resolver leaves the function without a return.
StartPtyWith(i, pf, fs, c) ==
    IF i.runAs /\ c.err # "nil"
    THEN StartResult(c.err, 0, pf, fs, NoChild, FALSE, c)
    ELSE IF ~i.ptyOk
    THEN StartResult("ErrPtyStart", 0, 0, fs, NoChild, TRUE, c)
    ELSE StartResult("nil", Len(fs) + 1, Len(fs) + 1, Append(fs, NewFile),
                     Command(i, IF i.runAs THEN Credential(c) ELSE NoCredential), TRUE, c)

\* the body of StartPty called with input i
StartPtyCall(i, pf, fs) ==
    StartPtyWith(i, pf, fs,
                 IF i.runAs THEN getUserCredentials(i.host, i.bits) ELSE CredError("nil", <<>>))

\* ------------------------------------------------------------ input domains
S_empty == <<>>
S_blank == <<" ", "\t">>
S_ls == <<"l", "s", " ", "-", "l">>
ShellCmds == {S_empty, S_blank, S_ls}

EnvPlain == <<<<"PATH", "/bin">>>>
EnvLang == <<<<"PATH", "/bin">>, <<"LANG", "en_US.UTF-8">>>>
EnvEmptyLang == <<<<"LANG", "">>, <<"PATH", "/bin">>>>
Environs == {EnvPlain, EnvLang, EnvEmptyLang}

N_1001 == <<"1", "0", "0", "1", "\n">>
N_0 == <<"0", "\n">>
N_minus1 == <<"-", "1", "\n">>
N_2p32 == <<"4", "2", "9", "4", "9", "6", "7", "2", "9", "6", "\n">>
N_2p32p1001 == <<"4", "2", "9", "4", "9", "6", "8", "2", "9", "7", "\n">>
N_2p31 == <<"2", "1", "4", "7", "4", "8", "3", "6", "4", "8", "\n">>
N_2p64 == <<"1", "8", "4", "4", "6", "7", "4", "4", "0", "7", "3", "7", "0", "9", "5", "5", "1", "6", "1", "6", "\n">>
N_text == <<"n", "o", " ", "s", "u", "c", "h", " ", "u", "s", "e", "r">>
UidOuts == {Out(N_1001), Out(N_0), Out(N_minus1), Out(N_2p32), Out(N_2p32p1001),
            Out(N_2p31), Out(N_2p64), Out(N_text), Out(<<>>), Fail}
GidOuts == {Out(N_1001), Out(N_0), Out(N_minus1), Out(N_2p32), Out(N_text), Fail}

G_short == <<"s", "s", "m", "-", "u", "s", "e", "r", "\n">>
G_header == <<"s", "s", "m", "-", "u", "s", "e", "r", " ", ":", "\n">>
G_primary == <<"s", "s", "m", "-", "u", "s", "e", "r", " ", ":", " ", "s", "s", "m", "-", "u", "s", "e", "r", "\n">>
G_two == <<"s", "s", "m", "-", "u", "s", "e", "r", " ", ":", " ", "s", "s", "m", "-", "u", "s", "e", "r", " ", "t", "e", "s", "t", "\n">>
G_three == <<"s", "s", "m", "-", "u", "s", "e", "r", " ", ":", " ", "s", "s", "m", "-", "u", "s", "e", "r", " ", "t", "e", "s", "t", " ", "a", "d", "m", "\n">>
GroupsOuts == {Out(G_short), Out(G_header), Out(G_primary), Out(G_two), Out(G_three), Fail}

K_ssm == <<"s", "s", "m", "-", "u", "s", "e", "r">>
K_test == <<"t", "e", "s", "t">>
K_adm == <<"a", "d", "m">>
R_ssm == <<"s", "s", "m", "-", "u", "s", "e", "r", ":", "x", ":", "1", "0", "0", "1", ":", "\n">>
R_test == <<"t", "e", "s", "t", ":", "x", ":", "1", "0", "0", "4", ":", "s", "s", "m", "-", "u", "s", "e", "r", "\n">>
R_adm == <<"a", "d", "m", ":", "x", ":", "4", ":", "\n">>
DbGood == (K_ssm :> R_ssm) @@ (K_test :> R_test) @@ (K_adm :> R_adm)
DbNoAdm == (K_ssm :> R_ssm) @@ (K_test :> R_test)
DbShort == (K_ssm :> R_ssm) @@ (K_test :> <<"t", "e", "s", "t", ":", "x", "\n">>) @@ (K_adm :> R_adm)
DbText == (K_ssm :> R_ssm) @@ (K_test :> <<"t", "e", "s", "t", ":", "x", ":", "-", "1", ":", "\n">>) @@ (K_adm :> <<"a", "d", "m", ":", "x", ":", "n", "o", "n", "e", ":", "\n">>)
GroupDbs == {DbGood, DbNoAdm, DbShort, DbText}

Hosts == [uidOut : UidOuts, gidOut : GidOuts, groupsOut : GroupsOuts, groupDb : GroupDbs]
HostGood == [uidOut |-> Out(N_1001), gidOut |-> Out(N_1001), groupsOut |-> Out(G_two),
             groupDb |-> DbGood]
HostNoUser == [uidOut |-> Fail, gidOut |-> Fail, groupsOut |-> Fail, groupDb |-> DbGood]

\* the width of int in the build: 32 bits (386, arm) or 64 bits (amd64, arm64)
IntSizes == {32, 64}

\* every input of one StartPty call
StartInputs ==
    [runAs : {TRUE}, shellCmd : {S_empty}, environ : {EnvPlain}, host : Hosts,
     bits : IntSizes, ptyOk : BOOLEAN]
    \cup [runAs : BOOLEAN, shellCmd : ShellCmds, environ : Environs, host : {HostGood},
          bits : IntSizes, ptyOk : BOOLEAN]

\* the StartPty calls of the session life cycle
LifeInputs ==
    [runAs : {TRUE}, shellCmd : {S_empty}, environ : {EnvPlain}, host : {HostGood, HostNoUser},
     bits : {64}, ptyOk : {TRUE}]
    \cup [runAs : {FALSE}, shellCmd : {S_empty}, environ : {EnvPlain}, host : {HostGood},
          bits : {64}, ptyOk : BOOLEAN]

\* the call generateLogData makes: StartPty(log, false, "")
ShadowInputs ==
    [runAs : {FALSE}, shellCmd : {S_empty}, environ : {EnvPlain}, host : {HostGood},
     bits : {64}, ptyOk : BOOLEAN]

\* ------------------------------------------------------------------- state
\* ptyFile: the package variable, 0 for nil, else the index of a handle in files.
\* files: every PTY master handle StartPty created, open or closed, with its size.
\* hist: the most recent calls and what they returned.
\* lastStart: the input and the outcome of the latest StartPty call.
\* rec: the position of generateLogData in its script and what it did so far.
\* race: two callers whose calls run concurrently, each with its position in
\*       StartPty; SetSize; Stop and what its calls returned and acted on, and
\*       whether the two sequences have run one after the other so far.
NoStart == [called |-> FALSE]
Idle == [pc |-> 0, shadow |-> 0, events |-> <<>>, pNil |-> FALSE, wfail |-> FALSE,
         fault |-> FALSE, stopErr |-> "nil"]

Callers == {1, 2}
Other(c) == 3 - c
NotCalled == [pc |-> "start", made |-> 0, stdin |-> 0, stdout |-> 0, sizeH |-> 0,
              sizeErr |-> "nil", stopH |-> 0, stopErr |-> "nil"]
NoRace == [serial |-> TRUE, of |-> [c \in Callers |-> NotCalled]]

Init ==
    /\ ptyFile = 0
    /\ files = <<>>
    /\ hist = <<>>
    /\ lastStart = NoStart
    /\ rec = Idle
    /\ race = NoRace

\* the record of a StartPty call: its input, what it returned and what it did
Started(i, out) ==
    [called |-> TRUE, inp |-> i,
     out |-> [err |-> out.err, stdin |-> out.stdin, stdout |-> out.stdout, child |-> out.child,
              started |-> out.started, cred |-> out.cred]]

Push(h, r) == IF Len(h) < HistLen THEN Append(h, r) ELSE Append(Tail(h), r)

Call(op, err, h, ok) == [op |-> op, err |-> err, h |-> h, ok |-> ok]

\* Close reports an error for a nil handle only: closing twice succeeds silently.
CloseErr_Silent(h, fs) == IF h # 0 THEN "nil" ELSE "ErrClose"

\* (*os.File).Close on handle h: nil and already closed handles are errors
CloseErr(h, fs) == IF h # 0 /\ fs[h].st = "open" THEN "nil" ELSE "ErrClose"

CloseFile(h, fs) ==
    IF h # 0 /\ fs[h].st = "open" THEN [fs EXCEPT ![h].st = "closed"] ELSE fs

\* the return of StartPty with outcome out
StartPtyDone(i, out) ==
    /\ ptyFile' = out.ptyFile
    /\ files' = out.files
    /\ lastStart' = Started(i, out)
    /\ hist' = Push(hist, Call("StartPty", out.err, out.stdin, i.ptyOk))
    /\ UNCHANGED <<rec, race>>

\* StartPty(log, i.runAs, i.shellCmd)
StartPty(i) ==
    /\ rec.pc = 0
    /\ Len(files) < MaxHandles
    /\ StartPtyDone(i, StartPtyCall(i, ptyFile, files))

\* Stop(log)
Stop ==
    /\ rec.pc = 0
    /\ files' = CloseFile(ptyFile, files)
    /\ hist' = Push(hist, Call("Stop", CloseErr(ptyFile, files), ptyFile, TRUE))
    /\ UNCHANGED <<ptyFile, lastStart, rec, race>>

\* The conversion saturates: a value above 65535 becomes 65535.
Uint16_Clamp(n) == IF n > 2^16 - 1 THEN 2^16 - 1 ELSE n

\* uint16(n)
Uint16(n) == n % 65536

\* The resize checks the handle for nil and not for being closed.
SetsizeErr_NilOnly(h, fs, platformOk) ==
    IF h # 0 /\ platformOk THEN "nil" ELSE "ErrSetsize"

\* pty.Setsize on handle h: the ioctl fails on a nil or closed handle, and
\* otherwise when the platform refuses it
SetsizeErr(h, fs, platformOk) ==
    IF h # 0 /\ fs[h].st = "open" /\ platformOk THEN "nil" ELSE "ErrSetsize"

\* SetSize(log, ws_col, ws_row)
SetSize(ws_col, ws_row, platformOk) ==
    /\ rec.pc = 0
    /\ LET winSize == <<Uint16(ws_col), Uint16(ws_row)>>
           err     == SetsizeErr(ptyFile, files, platformOk)
       IN  /\ files' = IF err = "nil" THEN [files EXCEPT ![ptyFile].size = winSize] ELSE files
           /\ hist' = Push(hist, Call("SetSize", err, ptyFile, platformOk))
    /\ UNCHANGED <<ptyFile, lastStart, rec, race>>

\* the window sizes callers ask for
Sizes == {<<80, 24>>, <<65616, 65560>>}

\* ----------------------------------------------------------- generateLogData
\* The scripted body, one entry per statement that sleeps, writes or closes.
\* usesP marks the statements that read a field of the receiver p.
Step(kind, what, usesP) == [kind |-> kind, what |-> what, usesP |-> usesP]

\* The PTY input is closed before the last exit command is written.
Script_EarlyClose ==
    << Step("sleep", "5s", FALSE),  Step("write", "screen", FALSE),
       Step("sleep", "5s", FALSE),  Step("write", "script", TRUE),
       Step("sleep", "5s", FALSE),  Step("write", "logger", TRUE),
       Step("sleep", "60s", FALSE), Step("write", "exit", FALSE),
       Step("sleep", "30s", FALSE), Step("write", "exit", FALSE),
       Step("sleep", "5s", FALSE),  Step("close", "shadow", FALSE),
       Step("sleep", "5s", FALSE),  Step("write", "exit", FALSE),
       Step("sleep", "15s", FALSE) >>

Script ==
    << Step("sleep", "5s", FALSE),  Step("write", "screen", FALSE),
       Step("sleep", "5s", FALSE),  Step("write", "script", TRUE),
       Step("sleep", "5s", FALSE),  Step("write", "logger", TRUE),
       Step("sleep", "60s", FALSE), Step("write", "exit", FALSE),
       Step("sleep", "30s", FALSE), Step("write", "exit", FALSE),
       Step("sleep", "5s", FALSE),  Step("write", "exit", FALSE),
       Step("sleep", "5s", FALSE),  Step("close", "shadow", FALSE),
       Step("sleep", "15s", FALSE) >>

ReturnPc == Len(Script) + 1

\* what generateLogData returns once the deferred function has recovered a panic
RecoveredReturn == "nil"

\* what generateLogData returns at the end of the script; the results of the
\* writes and of the close are not looked at
ScriptReturn(wfail) == "nil"

\* The error of StartPty is not looked at and the script starts all the same.
GenStarted_Continue(i, pNil, out) ==
    /\ ptyFile' = out.ptyFile
    /\ files' = out.files
    /\ lastStart' = Started(i, out)
    /\ hist' = hist
    /\ rec' = [Idle EXCEPT !.pc = 1, !.shadow = out.stdin, !.pNil = pNil]
    /\ UNCHANGED race

\* lines 194-197 once StartPty has returned out
GenStarted(i, pNil, out) ==
    /\ ptyFile' = out.ptyFile
    /\ files' = out.files
    /\ lastStart' = Started(i, out)
    /\ IF out.err # "nil"
       THEN /\ hist' = Push(hist, Call("generateLogData", out.err, 0, i.ptyOk))
            /\ rec' = Idle
       ELSE /\ hist' = hist
            /\ rec' = [Idle EXCEPT !.pc = 1, !.shadow = out.stdin, !.pNil = pNil]
    /\ UNCHANGED race

\* shadowShellInput, _, err := StartPty(log, false, ""), with receiver p
GenStart(i, pNil) ==
    /\ rec.pc = 0
    /\ Len(files) < MaxHandles
    /\ GenStarted(i, pNil, StartPtyCall(i, ptyFile, files))

\* one statement of the script that runs without a fault
GenStep ==
    /\ rec.pc \in 1..Len(Script)
    /\ LET st == Script[rec.pc]
       IN  /\ ~(st.usesP /\ rec.pNil)
           /\ \E ok \in BOOLEAN :
                /\ st.kind # "write" => ok
                /\ st.kind = "write" /\ files[rec.shadow].st # "open" => ~ok
                /\ rec' = [rec EXCEPT !.pc = rec.pc + 1,
                                      !.events = Append(rec.events, <<st.kind, st.what>>),
                                      !.wfail = rec.wfail \/ ~ok]
           /\ files' = IF st.kind = "close" THEN CloseFile(rec.shadow, files) ELSE files
    /\ UNCHANGED <<ptyFile, hist, lastStart, race>>

\* a statement that dereferences a nil receiver panics: the deferred function
\* recovers, calls Stop and logs its error, and generateLogData returns
GenFault ==
    /\ rec.pc \in 1..Len(Script)
    /\ Script[rec.pc].usesP /\ rec.pNil
    /\ files' = CloseFile(ptyFile, files)
    /\ rec' = [rec EXCEPT !.pc = 0, !.fault = TRUE, !.stopErr = CloseErr(ptyFile, files),
                          !.events = rec.events \o <<<<"recover", "panic">>, <<"Stop", "ptyFile">>>>]
    /\ hist' = Push(hist, Call("generateLogData", RecoveredReturn, rec.shadow, TRUE))
    /\ UNCHANGED <<ptyFile, lastStart, race>>

\* return nil
GenReturn ==
    /\ rec.pc = ReturnPc
    /\ rec' = [rec EXCEPT !.pc = 0]
    /\ hist' = Push(hist, Call("generateLogData", ScriptReturn(rec.wfail), rec.shadow, TRUE))
    /\ UNCHANGED <<ptyFile, files, lastStart, race>>

\* ---------------------------------------------------------- specifications
\* The session life cycle: calls of one caller, each running to completion.
LifeStart == \E i \in LifeInputs : StartPty(i)
LifeSetSize == \E sz \in Sizes, platformOk \in BOOLEAN : SetSize(sz[1], sz[2], platformOk)
LifeGenStart == \E i \in ShadowInputs, pNil \in BOOLEAN : GenStart(i, pNil)

Next == LifeStart \/ Stop \/ LifeSetSize \/ LifeGenStart \/ GenStep \/ GenFault \/ GenReturn

Spec == Init /\ [][Next]_vars

\* One StartPty call on a fresh process, over every input.
StartOnce == hist = <<>> /\ \E i \in StartInputs : StartPty(i)

NextStart == StartOnce

SpecStart == Init /\ [][NextStart]_vars

\* Resizing with sizes over the range of uint32 that an integer of the model
\* can hold: below, at and above 2^16, up to 2^31 - 1.
WideSizes ==
    {<<0, 0>>, <<80, 24>>, <<2^16 - 1, 2^16 - 1>>, <<2^16, 80>>, <<80, 2^16>>,
     <<70000, 100000>>, <<2^16 + 80, 2^16 + 24>>, <<2147483647, 2^17 - 1>>}

SizeStart == \E i \in ShadowInputs : StartPty(i)
SizeSetSize == \E sz \in WideSizes, platformOk \in BOOLEAN : SetSize(sz[1], sz[2], platformOk)

NextSize == SizeStart \/ SizeSetSize \/ Stop

SpecSize == Init /\ [][NextSize]_vars

\* Two callers, each calling StartPty, SetSize and Stop in this order, with no
\* lock around the package variable: a step is one access to ptyFile.
RaceInputs ==
    [runAs : {FALSE}, shellCmd : {S_empty}, environ : {EnvPlain}, host : {HostGood},
     bits : {64}, ptyOk : {TRUE}]

\* caller c takes a step that leaves it as r; the run stays serial when the
\* other caller is not in the middle of its sequence
RaceMove(c, r) ==
    race' = [serial |-> race.serial /\ race.of[Other(c)].pc \in {"start", "done"},
             of |-> [race.of EXCEPT ![c] = r]]

\* pty.Start creates the handle and nothing is stored in the package variable.
RaceAssigned_Local(c, out) ==
    /\ ptyFile' = ptyFile
    /\ files' = out.files
    /\ RaceMove(c, [race.of[c] EXCEPT !.pc = "assigned", !.made = out.stdin])

\* line 89 of caller c, out being what StartPty yields up to there
RaceAssigned(c, out) ==
    /\ ptyFile' = out.ptyFile
    /\ files' = out.files
    /\ RaceMove(c, [race.of[c] EXCEPT !.pc = "assigned", !.made = out.stdin])

\* ptyFile, err = pty.Start(cmd)
RaceAssign(c) ==
    /\ race.of[c].pc = "start"
    /\ \E i \in RaceInputs : RaceAssigned(c, StartPtyCall(i, ptyFile, files))
    /\ UNCHANGED <<hist, lastStart, rec>>

\* return ptyFile, ptyFile, nil: the first operand is read
RaceReturnIn(c) ==
    /\ race.of[c].pc = "assigned"
    /\ RaceMove(c, [race.of[c] EXCEPT !.pc = "return", !.stdin = ptyFile])
    /\ UNCHANGED <<ptyFile, files, hist, lastStart, rec>>

\* return ptyFile, ptyFile, nil: the second operand is read
RaceReturnOut(c) ==
    /\ race.of[c].pc = "return"
    /\ RaceMove(c, [race.of[c] EXCEPT !.pc = "size", !.stdout = ptyFile])
    /\ UNCHANGED <<ptyFile, files, hist, lastStart, rec>>

\* SetSize(log, 80, 24) of caller c
RaceSetSize(c, platformOk) ==
    /\ race.of[c].pc = "size"
    /\ files' = IF SetsizeErr(ptyFile, files, platformOk) = "nil"
                THEN [files EXCEPT ![ptyFile].size = <<Uint16(80), Uint16(24)>>] ELSE files
    /\ RaceMove(c, [race.of[c] EXCEPT !.pc = "stop", !.sizeH = ptyFile,
                                      !.sizeErr = SetsizeErr(ptyFile, files, platformOk)])
    /\ UNCHANGED <<ptyFile, hist, lastStart, rec>>

\* Stop(log) of caller c
RaceStop(c) ==
    /\ race.of[c].pc = "stop"
    /\ files' = CloseFile(ptyFile, files)
    /\ RaceMove(c, [race.of[c] EXCEPT !.pc = "done", !.stopH = ptyFile,
                                      !.stopErr = CloseErr(ptyFile, files)])
    /\ UNCHANGED <<ptyFile, hist, lastStart, rec>>

RaceSize(c) == \E platformOk \in BOOLEAN : RaceSetSize(c, platformOk)

NextRace ==
    \E c \in Callers :
        RaceAssign(c) \/ RaceReturnIn(c) \/ RaceReturnOut(c) \/ RaceSize(c) \/ RaceStop(c)

SpecRace == Init /\ [][NextRace]_vars

\* ------------------------------------------------------------------ claims
Last == hist[Len(hist)]
OpenHandles == {h \in 1..Len(files) : files[h].st = "open"}
Active == ptyFile # 0 /\ files[ptyFile].st = "open"

\* C1: after any sequence of StartPty / Stop / SetSize calls at most one PTY
\* master handle created by StartPty is still open.
C1_AtMostOneOpen == rec = Idle => Cardinality(OpenHandles) <= 1

\* C2: a run of generateLogData leaves the interactive session that was Active
\* before it alone: right after the run the handle of that session is open and
\* is the tracked handle, and a Stop that follows the run closes it with no error.
C2_RecorderLeavesSession ==
    \A k \in 1..Len(hist) :
        k + 1 <= Len(hist) /\ hist[k].op = "StartPty" /\ hist[k].err = "nil"
                           /\ hist[k + 1].op = "generateLogData"
        => /\ k + 1 = Len(hist) /\ rec.pc = 0 => files[hist[k].h].st = "open" /\ ptyFile = hist[k].h
           /\ k + 2 <= Len(hist) /\ hist[k + 2].op = "Stop"
              => hist[k + 2].err = "nil" /\ hist[k + 2].h = hist[k].h

\* C3: when StartPty with runAsSsmUser spawns the child, the Uid and the Gid
\* of the attached credential are both non-zero.
C3_NoZeroIdSpawned ==
    lastStart.called /\ lastStart.inp.runAs /\ lastStart.out.child.spawned
    => /\ lastStart.out.child.cred.uid # Zero32
       /\ lastStart.out.child.cred.gid # Zero32

\* C4: when StartPty is called with runAsSsmUser and the resolver returns an
\* error, StartPty returns that error with nil handles, pty.Start is not
\* reached, no handle is created and no child is spawned.
C4_CredFailureStopsStart ==
    lastStart.called /\ lastStart.inp.runAs
                     /\ lastStart.out.cred.err \notin {"nil", "panic"}
    => /\ lastStart.out.err = lastStart.out.cred.err
       /\ Last.op = "StartPty" /\ Last.err = lastStart.out.cred.err /\ Last.h = 0
       /\ lastStart.out.stdin = 0 /\ lastStart.out.stdout = 0
       /\ ~lastStart.out.started
       /\ ~lastStart.out.child.spawned
       /\ files = <<>> /\ ptyFile = 0

C4_Witness ==
    /\ lastStart.called /\ lastStart.inp.runAs
    /\ ~lastStart.inp.host.uidOut.ok
    /\ lastStart.inp.ptyOk
    /\ Last.op = "StartPty" /\ Last.err = "ErrExit"

\* C5: a successful StartPty followed by SetSize (the platform accepting the
\* resize) and then Stop returns no error at any of the three calls and leaves
\* the tracked handle closed.
C5_StartSizeStop ==
    \A k \in 1..Len(hist) :
        k + 1 <= Len(hist) /\ hist[k].op = "StartPty" /\ hist[k].err = "nil"
                           /\ hist[k + 1].op = "SetSize" /\ hist[k + 1].ok
        => /\ hist[k + 1].err = "nil" /\ hist[k + 1].h = hist[k].h
           /\ k + 2 <= Len(hist) /\ hist[k + 2].op = "Stop"
              => /\ hist[k + 2].err = "nil" /\ hist[k + 2].h = hist[k].h
                 /\ k + 2 = Len(hist) /\ rec.pc = 0
                    => ptyFile = hist[k].h /\ files[ptyFile].st = "closed"

C5_Witness ==
    /\ Len(hist) = 3 /\ Len(files) = 2
    /\ hist[1].op = "StartPty" /\ hist[1].err = "nil" /\ hist[1].h = 2
    /\ hist[2].op = "SetSize" /\ hist[2].ok
    /\ hist[3].op = "Stop"
    /\ files[2].size = <<80, 24>>

\* a step that is one SetSize call
SetSizeStep ==
    /\ rec.pc = 0 /\ rec' = rec
    /\ Len(hist') > 0
    /\ hist'[Len(hist')].op = "SetSize"
    /\ hist' = Push(hist, hist'[Len(hist')])

\* C6: SetSize succeeds only when the tracked handle is open; with no handle
\* (before any successful StartPty) or a closed one (after Stop) it returns the
\* resize error and leaves the tracked handle and every handle as they were.
C6_SetSizeOnlyActive ==
    [][SetSizeStep =>
         /\ hist'[Len(hist')].err = "nil" => Active
         /\ ~Active => /\ hist'[Len(hist')].err = "ErrSetsize"
                       /\ ptyFile' = ptyFile /\ files' = files
         /\ Len(hist) > 0 /\ Last.op = "Stop" => hist'[Len(hist')].err = "ErrSetsize"]_vars

C6_Witness ==
    /\ Len(hist) >= 2
    /\ hist[Len(hist) - 1].op = "Stop" /\ hist[Len(hist) - 1].err = "nil"
    /\ Last.op = "SetSize" /\ Last.ok /\ Last.err = "ErrSetsize"
    /\ ~Active /\ ptyFile # 0

\* C7: Stop returns the close error when no handle was ever tracked, and in a
\* run of consecutive Stop calls after a successful StartPty the first Stop
\* succeeds on the handle StartPty returned and each later one returns the
\* close error.
C7_StopOnlyOnce ==
    \A k \in 1..Len(hist) :
        hist[k].op = "Stop"
        => /\ hist[k].h = 0 => hist[k].err = "ErrClose"
           /\ k > 1 /\ hist[k - 1].op = "Stop" => hist[k].err = "ErrClose"
           /\ k > 1 /\ hist[k - 1].op = "StartPty" /\ hist[k - 1].err = "nil"
              => hist[k].err = "nil" /\ hist[k].h = hist[k - 1].h

C7_Witness ==
    /\ Len(hist) = 3
    /\ hist[1].op = "StartPty" /\ hist[1].err = "nil"
    /\ hist[2].op = "Stop" /\ hist[2].err = "nil"
    /\ hist[3].op = "Stop" /\ hist[3].err = "ErrClose"

\* every query of the resolver exits with status 0 and every number parses
AllQueriesOk(host, bits) ==
    /\ host.uidOut.ok /\ Atoi(TrimSpace(host.uidOut.out), bits).err = "nil"
    /\ host.gidOut.ok /\ Atoi(TrimSpace(host.gidOut.out), bits).err = "nil"
    /\ host.groupsOut.ok
    /\ LET names == Split(host.groupsOut.out, " ")
       IN  \A j \in 3..Len(names) :
              LET out == Getent(host, names[j])
              IN  /\ out.ok
                  /\ Len(Split(out.out, ":")) >= 3
                  /\ Atoi(TrimSpace(Split(out.out, ":")[3]), bits).err = "nil"

ParsedUid == Atoi(TrimSpace(lastStart.inp.host.uidOut.out), lastStart.inp.bits)
ParsedGid == Atoi(TrimSpace(lastStart.inp.host.gidOut.out), lastStart.inp.bits)

\* C8: when every query and parse succeeds and the parsed uid or the parsed
\* gid is 0, getUserCredentials returns the invalid-ids error with uid 0, gid 0
\* and no groups; it returns without error only when the parsed uid and the
\* parsed gid are both greater than 0.
C8_ZeroIdsRejected ==
    lastStart.called /\ lastStart.inp.runAs
    => /\ AllQueriesOk(lastStart.inp.host, lastStart.inp.bits)
          /\ (ParsedUid.mag = ZeroMag \/ ParsedGid.mag = ZeroMag)
          => /\ lastStart.out.cred.err = "ErrInvalidIds"
             /\ lastStart.out.cred.uid = Zero32
             /\ lastStart.out.cred.gid = Zero32
             /\ lastStart.out.cred.groups = <<>>
       /\ lastStart.out.cred.err = "nil"
          => /\ AllQueriesOk(lastStart.inp.host, lastStart.inp.bits)
             /\ Positive(ParsedUid) /\ Positive(ParsedGid)

C8_Witness ==
    /\ lastStart.called /\ lastStart.inp.runAs
    /\ AllQueriesOk(lastStart.inp.host, lastStart.inp.bits)
    /\ Positive(ParsedUid) /\ ParsedGid.mag = ZeroMag
    /\ Len(Split(lastStart.inp.host.groupsOut.out, " ")) = 4
    /\ lastStart.out.cred.err = "ErrInvalidIds"

\* C9: when a fault occurs in the script of generateLogData, Stop is called
\* and the fault still reaches the caller: generateLogData does not return nil.
C9_FaultPropagates ==
    Len(hist) > 0 /\ Last.op = "generateLogData" /\ rec.fault
    => /\ rec.events[Len(rec.events)] = <<"Stop", "ptyFile">>
       /\ Last.err # "nil"

\* C10: when a scripted write to the shadow PTY fails, generateLogData returns
\* an error.
C10_WriteFailureAborts ==
    Len(hist) > 0 /\ Last.op = "generateLogData" /\ rec.wfail => Last.err # "nil"


\* C11: when the StartPty call of generateLogData fails, generateLogData
\* returns that error at once: the script is never entered, so nothing is
\* written, no delay is waited and no handle is closed; the script only runs
\* on the handle of a StartPty call that succeeded.
C11_StartFailureReturns ==
    /\ rec.pc # 0
       => /\ lastStart.called /\ lastStart.out.err = "nil"
          /\ rec.shadow # 0 /\ rec.shadow = lastStart.out.stdin
    /\ Len(hist) > 0 /\ Last.op = "generateLogData"
                     /\ lastStart.called /\ lastStart.out.err # "nil"
       => /\ Last.err = lastStart.out.err
          /\ Last.h = 0
          /\ rec.pc = 0 /\ rec.events = <<>> /\ ~rec.fault

C11_Witness ==
    /\ Len(hist) = 2
    /\ hist[1].op = "StartPty" /\ hist[1].err = "nil"
    /\ Last.op = "generateLogData" /\ Last.err = "ErrPtyStart"
    /\ lastStart.out.err = "ErrPtyStart" /\ ~lastStart.inp.ptyOk
    /\ rec.events = <<>>
    /\ files[1].st = "open"


\* shellCmd holds nothing but white space
Blank(shellCmd) == \A k \in 1..Len(shellCmd) : shellCmd[k] \in Space

\* C12: the argument vector of the spawned child depends on shellCmd alone:
\* the shell with no argument when shellCmd is blank, else the shell, the
\* single-command-line flag and shellCmd as one argument.
C12_ArgsFromShellCmd ==
    lastStart.called /\ lastStart.out.child.spawned
    => IF Blank(lastStart.inp.shellCmd)
       THEN lastStart.out.child.args = <<"sh">>
       ELSE /\ Len(lastStart.out.child.args) = 3
            /\ lastStart.out.child.args[1] = "sh"
            /\ lastStart.out.child.args[2] = "-c"
            /\ lastStart.out.child.args[3] = lastStart.inp.shellCmd

C12_Witness ==
    /\ lastStart.called /\ lastStart.out.child.spawned
    /\ lastStart.inp.runAs /\ lastStart.inp.environ = EnvLang
    /\ lastStart.inp.shellCmd = S_ls
    /\ Len(lastStart.out.child.args) = 3


\* the parent environment has an entry for LANG
DefinesLang(environ) == \E k \in 1..Len(environ) : environ[k][1] = "LANG"

\* the parent's LANG is unset, or set to the empty string
LangEmpty(environ) == \A k \in 1..Len(environ) : environ[k][1] = "LANG" => environ[k][2] = ""

\* the parent environment followed by the TERM and HOME overrides
WithOverrides(environ) ==
    environ \o << <<"TERM", "xterm-256color">>, <<"HOME", "/home/ssm-user">> >>

\* C13 as stated: the child environment is the parent's followed by the TERM
\* and HOME overrides, and LANG=C.UTF-8 is appended if and only if the parent
\* has no LANG entry.
C13_LangIffUndefined ==
    lastStart.called /\ lastStart.out.child.spawned
    => lastStart.out.child.env =
         IF DefinesLang(lastStart.inp.environ)
         THEN WithOverrides(lastStart.inp.environ)
         ELSE Append(WithOverrides(lastStart.inp.environ), <<"LANG", "C.UTF-8">>)

\* C13: the child environment is the parent's followed by the TERM and HOME
\* overrides, and LANG=C.UTF-8 is appended if and only if the parent's LANG
\* value is empty, which covers a parent that sets LANG to the empty string;
\* a parent with a non-empty LANG gets no second LANG definition.
C13_LangIffEmpty ==
    lastStart.called /\ lastStart.out.child.spawned
    => /\ lastStart.out.child.env =
            IF LangEmpty(lastStart.inp.environ)
            THEN Append(WithOverrides(lastStart.inp.environ), <<"LANG", "C.UTF-8">>)
            ELSE WithOverrides(lastStart.inp.environ)
       /\ ~LangEmpty(lastStart.inp.environ)
          => Cardinality({k \in 1..Len(lastStart.out.child.env) :
                             lastStart.out.child.env[k][1] = "LANG"}) = 1

C13_Witness ==
    /\ lastStart.called /\ lastStart.out.child.spawned
    /\ lastStart.inp.environ = EnvEmptyLang
    /\ Len(lastStart.out.child.env) = 5
    /\ lastStart.out.child.env[1] = <<"LANG", "">>
    /\ lastStart.out.child.env[5] = <<"LANG", "C.UTF-8">>


\* the tokens of the membership query output of the latest StartPty call
Tokens == Split(lastStart.inp.host.groupsOut.out, " ")

\* the number of tokens after the first two
NGroups == IF Len(Tokens) > 2 THEN Len(Tokens) - 2 ELSE 0

\* the queries the resolver issued after the membership query
GroupQueries == SubSeq(lastStart.out.cred.queries, 4, Len(lastStart.out.cred.queries))

\* the latest StartPty call resolved credentials and its membership query succeeded
MembershipRead ==
    /\ lastStart.called /\ lastStart.inp.runAs
    /\ Len(lastStart.out.cred.queries) >= 3
    /\ lastStart.inp.host.groupsOut.ok

\* what the j-th group step yields: the query of token j + 2 and its parse
GroupStep(j) ==
    GroupIdFromName(Getent(lastStart.inp.host, Tokens[j + 2]), lastStart.inp.bits)

\* on success there is one id per token after the second, in token order
GroupsInTokenOrder ==
    lastStart.out.cred.err = "nil"
    => /\ Len(lastStart.out.cred.groups) = NGroups
       /\ \A j \in 1..NGroups : lastStart.out.cred.groups[j] = GroupStep(j).id

\* C14 as stated: one group-database query for each of tokens 3..n, in token
\* order, whatever the queries return; on success max(0, n-2) ids in token order.
C14_OneQueryPerToken ==
    MembershipRead
    => /\ Len(GroupQueries) = NGroups
       /\ \A j \in 1..NGroups : GroupQueries[j] = <<"getent group", Tokens[j + 2]>>
       /\ GroupsInTokenOrder

\* C14: tokens 1 and 2 are skipped and tokens 3..n are queried in token order,
\* one query per token, up to and including the first token whose query or
\* record fails; when no group step fails each of tokens 3..n is queried once,
\* and on success there are exactly max(0, n-2) ids in token order.
C14_QueriesUntilFailure ==
    MembershipRead
    => /\ Len(GroupQueries) <= NGroups
       /\ \A j \in 1..Len(GroupQueries) :
             /\ GroupQueries[j] = <<"getent group", Tokens[j + 2]>>
             /\ j < Len(GroupQueries) => GroupStep(j).err = "nil"
       /\ Len(GroupQueries) < NGroups
          => Len(GroupQueries) > 0 /\ GroupStep(Len(GroupQueries)).err # "nil"
       /\ GroupsInTokenOrder

C14_Witness ==
    /\ MembershipRead
    /\ lastStart.inp.host.groupsOut.out = G_three
    /\ lastStart.out.cred.err = "nil"
    /\ Len(Tokens) = 5
    /\ Len(GroupQueries) = 3
    /\ lastStart.out.cred.groups = << <<1001, 0>>, <<1004, 0>>, <<4, 0>> >>


\* the events of a complete run of generateLogData, in order
ExpectedEvents ==
    << <<"sleep", "5s">>,  <<"write", "screen">>,
       <<"sleep", "5s">>,  <<"write", "script">>,
       <<"sleep", "5s">>,  <<"write", "logger">>,
       <<"sleep", "60s">>, <<"write", "exit">>,
       <<"sleep", "30s">>, <<"write", "exit">>,
       <<"sleep", "5s">>,  <<"write", "exit">>,
       <<"sleep", "5s">>,  <<"close", "shadow">>,
       <<"sleep", "15s">> >>

\* generateLogData has returned from a run whose StartPty succeeded
RunReturned == rec.pc = 0 /\ Len(hist) > 0 /\ Last.op = "generateLogData" /\ Last.h # 0

\* C15: when the shadow session starts and no fault occurs, generateLogData
\* performs the settle delay, the three command writes, the three exit writes
\* and the close of the PTY input, each followed by its delay, in this order
\* and once each, and then returns nil: at every point of the run what it has
\* done is the beginning of that sequence, a write or a close always directly
\* follows a delay, and at the return the sequence is complete.
C15_ScriptInOrder ==
    /\ rec.pc # 0 /\ ~rec.fault
       => /\ rec.pc <= Len(ExpectedEvents) + 1
          /\ rec.events = SubSeq(ExpectedEvents, 1, rec.pc - 1)
    /\ \A k \in 1..Len(rec.events) :
          rec.events[k][1] \in {"write", "close"} => k > 1 /\ rec.events[k - 1][1] = "sleep"
    /\ RunReturned /\ ~rec.fault
       => rec.events = ExpectedEvents /\ Last.err = "nil"

C15_Witness ==
    /\ RunReturned /\ ~rec.fault /\ ~rec.wfail
    /\ Last.err = "nil"
    /\ Len(rec.events) = 15
    /\ rec.events[14] = <<"close", "shadow">>
    /\ files[rec.shadow].st = "closed"


\* the k-th query of a resolution that runs to its end
ExpectedQuery(k) ==
    IF k = 1 THEN <<"id -u">>
    ELSE IF k = 2 THEN <<"id -g">>
    ELSE IF k = 3 THEN <<"groups">>
    ELSE <<"getent group", Tokens[k - 1]>>

\* the k-th step of the resolution fails: its query exits with an error, its
\* number does not parse, or its group record has no third field
FailedAt(k) ==
    IF k = 1 THEN ~lastStart.inp.host.uidOut.ok \/ ParsedUid.err # "nil"
    ELSE IF k = 2 THEN ~lastStart.inp.host.gidOut.ok \/ ParsedGid.err # "nil"
    ELSE IF k = 3 THEN ~lastStart.inp.host.groupsOut.ok
    ELSE GroupStep(k - 3).err # "nil"

\* C16: getUserCredentials issues the uid query, the gid query, the membership
\* query and then one group query per name, in this order, and the first
\* failing step, a group record without a third field included, ends it with
\* an error return of uid 0, gid 0 and no groups, no later query being issued.
C16_FirstFailureReturnsError ==
    lastStart.called /\ lastStart.inp.runAs
    => /\ \A k \in 1..Len(lastStart.out.cred.queries) :
             lastStart.out.cred.queries[k] = ExpectedQuery(k)
       /\ ~AllQueriesOk(lastStart.inp.host, lastStart.inp.bits)
          => /\ FailedAt(Len(lastStart.out.cred.queries))
             /\ \A k \in 1..(Len(lastStart.out.cred.queries) - 1) : ~FailedAt(k)
             /\ lastStart.out.cred.err \in {"ErrExit", "ErrSyntax", "ErrRange"}
             /\ lastStart.out.cred.uid = Zero32
             /\ lastStart.out.cred.gid = Zero32
             /\ lastStart.out.cred.groups = <<>>


\* the call a step completes, when it completes one
NewLast == hist'[Len(hist')]

\* a step that is one complete call of the given operations
CallStep(ops) ==
    /\ rec.pc = 0 /\ rec' = rec
    /\ Len(hist') > 0
    /\ NewLast.op \in ops
    /\ hist' = Push(hist, NewLast)

\* the latest completed call is a StartPty that failed in pty.Start
AfterPtyFailure == Len(hist) > 0 /\ Last.op = "StartPty" /\ Last.err = "ErrPtyStart"

\* C18: a StartPty that fails in credential resolution leaves the tracked
\* handle as it was; one that fails in pty.Start sets the tracked handle to
\* nil, so that the SetSize and the Stop that follow return errors and close
\* nothing, even when a session was Active before the failed call.
C18_FailedStartAndHandle ==
    [][/\ CallStep({"StartPty"}) /\ NewLast.err \notin {"nil", "ErrPtyStart"}
          => ptyFile' = ptyFile /\ files' = files /\ NewLast.h = 0
       /\ CallStep({"StartPty"}) /\ NewLast.err = "ErrPtyStart"
          => ptyFile' = 0 /\ files' = files /\ NewLast.h = 0
       /\ CallStep({"SetSize", "Stop"}) /\ AfterPtyFailure
          => NewLast.err # "nil" /\ NewLast.h = 0 /\ files' = files /\ ptyFile' = 0
       /\ CallStep({"SetSize", "Stop"}) /\ Len(hist) > 1
              /\ Last.op \in {"SetSize", "Stop"}
              /\ hist[Len(hist) - 1].op = "StartPty"
              /\ hist[Len(hist) - 1].err = "ErrPtyStart"
          => NewLast.err # "nil" /\ NewLast.h = 0 /\ files' = files /\ ptyFile' = 0]_vars

C18_Witness ==
    /\ Len(hist) = 3 /\ Len(files) = 1
    /\ hist[1].op = "StartPty" /\ hist[1].err = "ErrPtyStart"
    /\ hist[2].op = "SetSize" /\ hist[2].ok /\ hist[2].err = "ErrSetsize"
    /\ hist[3].op = "Stop" /\ hist[3].err = "ErrClose"
    /\ ptyFile = 0
    /\ files[1].st = "open"


\* n mod 2^16, by division
Mod16(n) == n - (2^16) * (n \div (2^16))

\* C19: SetSize does not reject a (columns, rows) pair itself: on an Active
\* session it fails only when the platform refuses the resize, and the size
\* it applies is (columns mod 2^16, rows mod 2^16), which is the requested
\* size exactly when both values are below 65536.
C19_SizeModulo ==
    [][\A sz \in WideSizes, platformOk \in BOOLEAN :
          SetSize(sz[1], sz[2], platformOk) /\ Active
          => /\ NewLast.err = "nil" <=> platformOk
             /\ platformOk
                => /\ files'[ptyFile].size = <<Mod16(sz[1]), Mod16(sz[2])>>
                   /\ files'[ptyFile].size = sz <=> sz[1] < 65536 /\ sz[2] < 65536]_vars

C19_Witness ==
    /\ Active
    /\ Len(hist) > 0 /\ Last.op = "SetSize" /\ Last.err = "nil"
    /\ files[ptyFile].size = <<4464, 34464>>


\* C17: two callers race on the package variable.  As long as the sequence
\* StartPty; SetSize; Stop of each caller runs with no step of the other
\* caller in between, StartPty returns the handle it created, SetSize acts on
\* it and Stop closes it with no error.  (C17_Witness is the interleaving in
\* which a call acts on the other caller's handle, one Stop returns the close
\* error and one created handle stays open.)
C17_SerialStopsOwn ==
    race.serial
    => \A c \in Callers :
          /\ race.of[c].pc \in {"return", "size", "stop", "done"}
             => race.of[c].made # 0 /\ race.of[c].stdin = race.of[c].made
          /\ race.of[c].pc \in {"size", "stop", "done"}
             => race.of[c].stdout = race.of[c].made
          /\ race.of[c].pc \in {"stop", "done"} => race.of[c].sizeH = race.of[c].stdin
          /\ race.of[c].pc = "done"
             => /\ race.of[c].stopH = race.of[c].stdin
                /\ race.of[c].stopErr = "nil"
                /\ files[race.of[c].stdin].st = "closed"

C17_Witness ==
    /\ \A c \in Callers : race.of[c].pc = "done"
    /\ ~race.serial
    /\ Len(files) = 2
    /\ \E c \in Callers :
          /\ race.of[c].made # 0 /\ race.of[Other(c)].made # 0
          /\ race.of[c].made # race.of[Other(c)].made
          /\ race.of[c].stdin = race.of[c].made
          /\ race.of[c].sizeH = race.of[Other(c)].made
          /\ race.of[c].stopH = race.of[Other(c)].made
          /\ race.of[c].stopErr = "ErrClose"
          /\ race.of[Other(c)].stopErr = "nil"
          /\ files[race.of[c].made].st = "open"
          /\ files[race.of[Other(c)].made].st = "closed"

====
